---- MODULE Spec2Model ----
(***************************************************************************)
(* A model of ThumbnailGenerator (src/main.py): the font cache, the greedy *)
(* word wrap, the title and file name substitution, the vertical placement *)
(* of the text block and the batch loop of save_thumbnails.                *)
(*                                                                         *)
(* A text is a sequence of one-character strings, so that splitting,       *)
(* joining, stripping and replacing are computed character by character.   *)
(***************************************************************************)
EXTENDS Integers, Sequences, FiniteSets

VARIABLES
    wrap,    \* one call of wrap_text: its arguments and, once done, its lines
    place,   \* one run of the placement arithmetic of generate_thumbnail
    thumb,   \* one call of the title and file name part of generate_thumbnail
    ui,              \* the widgets' values and the fields the sliders set
    loadable,        \* the font names ImageFont.truetype can load on this machine
    pil_fonts,       \* self.pil_fonts: cache key -> font handle
    stdout,          \* the number of "Error loading font" lines printed
    fontcall,        \* the last call of get_pil_font and what it gave
    pc,              \* where save_thumbnails stands
    start_num,       \* start_num of save_thumbnails: the start number it read
    count,           \* count of save_thumbnails: the batch count it read
    i,               \* the loop index of save_thumbnails
    cancelled,       \* what progress.wasCanceled() answers
    progress_value,  \* the value last given to progress.setValue
    item,            \* the thumbnail generated and not yet saved
    rendered,        \* the sequence numbers generate_thumbnail was called with
    written,         \* the items img.save has written, in order
    files,           \* the directory: file name -> the item it holds
    message,         \* the message box shown at the end of save_thumbnails
    preview,         \* the pixmap update_preview has set
    events           \* the widget edits and batches of the session so far

pureVars == <<wrap, place, thumb>>
appVars == <<ui, loadable, pil_fonts, stdout, fontcall, pc, start_num, count, i,
             cancelled, progress_value, item, rendered, written, files, message,
             preview, events>>
vars == <<wrap, place, thumb, ui, loadable, pil_fonts, stdout, fontcall, pc,
          start_num, count, i, cancelled, progress_value, item, rendered, written,
          files, message, preview, events>>

----------------------------------------------------------------------------
(* Bounds of the model *)

MaxTextLen == 6
MaxWidth == 6
MaxLines == 4
MaxBatch == 3
MaxEvents == 2

----------------------------------------------------------------------------
(* Texts *)

\* A character of ASCII is the one-character string of it. A character outside
\* ASCII is the string "U+" and the four hexadecimal digits of its code point
\* ("U+00E9" is the letter e with an acute accent): a string of this language
\* holds ASCII only, and a text, being a sequence of characters, takes either.

\* The characters str.split() and str.strip() treat as whitespace, the 29 code
\* points for which str.isspace() holds: the space, \t, \n, \r, \f, the
\* vertical tab U+000B and the separators U+001C to U+001F, each written as
\* the character itself, and 19 characters outside ASCII.
Whitespace ==
    {" ", "\t", "\n", "\r", "\f",
     "", "", "", "", "",
     "U+0085", "U+00A0", "U+1680", "U+2000", "U+2001", "U+2002", "U+2003",
     "U+2004", "U+2005", "U+2006", "U+2007", "U+2008", "U+2009", "U+200A",
     "U+2028", "U+2029", "U+202F", "U+205F", "U+3000"}

Range(s) == {s[k] : k \in 1..Len(s)}

TextsOver(alphabet, n) == UNION {[1..k -> alphabet] : k \in 0..n}

RECURSIVE SplitFrom(_, _, _)
SplitFrom(s, cur, acc) ==
    IF s = <<>>
    THEN IF cur = <<>> THEN acc ELSE Append(acc, cur)
    ELSE IF Head(s) \in Whitespace
         THEN SplitFrom(Tail(s), <<>>, IF cur = <<>> THEN acc ELSE Append(acc, cur))
         ELSE SplitFrom(Tail(s), Append(cur, Head(s)), acc)

\* text.split(): the maximal runs of non-whitespace characters, in order.
Split(s) == SplitFrom(s, <<>>, <<>>)

RECURSIVE Join(_)
\* ' '.join(words)
Join(words) ==
    IF words = <<>> THEN <<>>
    ELSE IF Len(words) = 1 THEN words[1]
    ELSE words[1] \o <<" ">> \o Join(Tail(words))

----------------------------------------------------------------------------
(* Font metrics: draw.textbbox((0, 0), text, font=font), right - left *)

\* Advance of one glyph in font units: a wide glyph, and narrow ones.
GlyphUnits(ch) == IF ch = "b" THEN 2 ELSE 1

RECURSIVE TextWidth(_, _)
TextWidth(font, s) ==
    IF s = <<>> THEN 0
    ELSE font.size * GlyphUnits(Head(s)) + TextWidth(font, Tail(s))

----------------------------------------------------------------------------
(* wrap_text *)

TooWideGe(text_width, max_width, current_line) ==
    text_width >= max_width /\ current_line # <<>>

\* if text_width > max_width and current_line:
TooWide(text_width, max_width, current_line) ==
    text_width > max_width /\ current_line # <<>>

RECURSIVE WrapLoop(_, _, _, _, _)
\* The for loop: st = [lines, current_line] after the words consumed so far.
WrapLoop(words, font, max_width, lines, current_line) ==
    IF words = <<>> THEN [lines |-> lines, current_line |-> current_line]
    ELSE LET word == Head(words)
             test_line == Append(current_line, word)
             text_width == TextWidth(font, Join(test_line))
         IN  IF TooWide(text_width, max_width, current_line)
             THEN WrapLoop(Tail(words), font, max_width,
                           Append(lines, Join(current_line)), <<word>>)
             ELSE WrapLoop(Tail(words), font, max_width, lines, test_line)

wrap_text_no_last(text, font, max_width) ==
    WrapLoop(Split(text), font, max_width, <<>>, <<>>).lines

wrap_text(text, font, max_width) ==
    LET st == WrapLoop(Split(text), font, max_width, <<>>, <<>>)
    IN  IF st.current_line # <<>>
        THEN Append(st.lines, Join(st.current_line))
        ELSE st.lines

----------------------------------------------------------------------------
(* generate_thumbnail: the title and the file name *)

Digits == <<"0", "1", "2", "3", "4", "5", "6", "7", "8", "9">>

RECURSIVE Str(_)
\* str(number), for a number >= 0 (the spin boxes start at 1)
Str(n) == IF n < 10 THEN <<Digits[n + 1]>>
          ELSE Str(n \div 10) \o <<Digits[(n % 10) + 1]>>

RECURSIVE Replace(_, _, _)
\* s.replace(old, new) for a one-character old
Replace(s, old, new) ==
    IF s = <<>> THEN <<>>
    ELSE (IF Head(s) = old THEN new ELSE <<Head(s)>>) \o Replace(Tail(s), old, new)

RECURSIVE ReplaceFirst(_, _, _)
ReplaceFirst(s, old, new) ==
    IF s = <<>> THEN <<>>
    ELSE IF Head(s) = old THEN new \o Tail(s)
    ELSE <<Head(s)>> \o ReplaceFirst(Tail(s), old, new)

TitleFirstOnly(title_template, number) == ReplaceFirst(title_template, "#", Str(number))

\* title = title_template.replace('#', str(number))
Title(title_template, number) == Replace(title_template, "#", Str(number))

RECURSIVE LStrip(_)
LStrip(s) == IF s # <<>> /\ Head(s) \in Whitespace THEN LStrip(Tail(s)) ELSE s

RECURSIVE RStrip(_)
RStrip(s) == IF s # <<>> /\ s[Len(s)] \in Whitespace
             THEN RStrip(SubSeq(s, 1, Len(s) - 1)) ELSE s

\* self.course_input.text().strip()
Strip(s) == RStrip(LStrip(s))

FilenameTitleNoStrip(course_text, title) ==
    IF course_text # <<>> THEN course_text \o <<" ", "-", " ">> \o title ELSE title

\* filename_title: the title, behind the course name when there is one
FilenameTitle(course_text, title) ==
    LET course_name == Strip(course_text)
    IN  IF course_name # <<>> THEN course_name \o <<" ", "-", " ">> \o title ELSE title

ThumbnailSuffix == <<"_", "T", "h", "u", "m", "b", "n", "a", "i", "l", ".", "p", "n", "g">>

\* filename = f"{title}_Thumbnail.png", of the filename_title generate_thumbnail returns
Filename(filename_title) == filename_title \o ThumbnailSuffix

----------------------------------------------------------------------------
(* generate_thumbnail: the vertical placement of the lines *)

\* The (font size, slider value) pairs of the sliders' ranges for which the
\* binary64 product font_size * (value / 100.0) falls just below the integer
\* font_size * value / 100, so that int() truncates to one less.
FloatShort == {<<50, 58>>, <<90, 70>>, <<100, 29>>, <<100, 57>>, <<100, 58>>,
               <<150, 82>>, <<170, 70>>, <<180, 35>>, <<180, 70>>, <<200, 29>>,
               <<200, 57>>, <<200, 58>>}

\* line_spacing = int(font_size * self.line_spacing_factor), the factor being
\* the slider's value / 100.0
LineSpacing(font_size, slider_value) ==
    IF <<font_size, slider_value>> \in FloatShort
    THEN (font_size * slider_value) \div 100 - 1
    ELSE (font_size * slider_value) \div 100

\* text_height = len(lines) * (font_size + line_spacing) - line_spacing
TextHeight(n, font_size, line_spacing) == n * (font_size + line_spacing) - line_spacing

YStartNoTrim(height, n, font_size, line_spacing) ==
    (height - n * (font_size + line_spacing)) \div 2

\* y_position = (height - text_height) // 2
YStart(height, n, font_size, line_spacing) ==
    (height - TextHeight(n, font_size, line_spacing)) \div 2

\* The y_position each line is drawn at: the loop adds font_size + line_spacing
\* after each line.
YPositions(height, n, font_size, line_spacing) ==
    [k \in 1..n |-> YStart(height, n, font_size, line_spacing)
                    + (k - 1) * (font_size + line_spacing)]

----------------------------------------------------------------------------
(* get_pil_font *)

Arial == <<"A", "r", "i", "a", "l">>
Aileron == <<"A", "i", "l", "e", "r", "o", "n">>
Missing == <<"F", "_", "1">>

\* The font combo box: the fonts of the data directory, then system fonts.
CustomFonts == {Aileron, Missing}
SystemFonts == {Arial}
FontNames == CustomFonts \cup SystemFonts

\* key = f"{font_name}_{size}"
Key(font_name, size) == font_name \o <<"_">> \o Str(size)

\* ImageFont.truetype(path or name, size), when it loads: the face at that size
TrueType(font_name, size) == [face |-> font_name, size |-> size]

\* ImageFont.load_default(): Pillow's built-in face, Aileron Regular at size 10
LoadDefault == [face |-> Aileron, size |-> 10]

InCache(cache, key) == key \in DOMAIN cache

Put(cache, key, font) ==
    [k \in DOMAIN cache \cup {key} |-> IF k = key THEN font ELSE cache[k]]

get_pil_font_reload(cache, env, font_name, size) ==
    LET key == Key(font_name, size)
        font == IF font_name \in env THEN TrueType(font_name, size) ELSE LoadDefault
    IN  [font |-> font, cache |-> Put(cache, key, font), hit |-> FALSE,
         printed |-> font_name \notin env]

\* One call: the font returned, the cache after it, whether the entry was
\* cached already, and whether the except branch ran (and printed).
get_pil_font(cache, env, font_name, size) ==
    LET key == Key(font_name, size)
    IN  IF InCache(cache, key)
        THEN [font |-> cache[key], cache |-> cache, hit |-> TRUE, printed |-> FALSE]
        ELSE IF font_name \in env
             THEN [font |-> TrueType(font_name, size),
                   cache |-> Put(cache, key, TrueType(font_name, size)),
                   hit |-> FALSE, printed |-> FALSE]
             ELSE [font |-> LoadDefault,
                   cache |-> Put(cache, key, LoadDefault),
                   hit |-> FALSE, printed |-> TRUE]

----------------------------------------------------------------------------
(* generate_thumbnail *)

\* max_text_width = width - (self.text_margins * 2)
MaxTextWidth(width, text_margins) == width - (text_margins * 2)

\* x_position = (width - line_width) // 2
XPositions(width, font, lines) ==
    [k \in 1..Len(lines) |-> (width - TextWidth(font, lines[k])) \div 2]

\* What one call computes: the title, the filename_title it returns, the font
\* and the cache after get_pil_font, the wrapped lines and where each is drawn.
generate_thumbnail(u, cache, env, number, width, height) ==
    LET title == Title(u.title_input, number)
        got == get_pil_font(cache, env, u.font_name, u.font_size)
        lines == wrap_text(title, got.font, MaxTextWidth(width, u.text_margins))
        line_spacing == LineSpacing(u.font_size, u.slider_value)
    IN  [number |-> number,
         title |-> title,
         filename_title |-> FilenameTitle(u.course_input, title),
         got |-> got,
         lines |-> lines,
         ys |-> YPositions(height, Len(lines), u.font_size, line_spacing),
         xs |-> XPositions(width, got.font, lines)]

\* The image of a call: what was drawn, without the bookkeeping.
Image(g, width, height) ==
    [number |-> g.number, width |-> width, height |-> height, font |-> g.got.font,
     lines |-> g.lines, ys |-> g.ys, xs |-> g.xs]

\* The sizes update_preview and save_thumbnails render at.
PreviewWidth == 800
PreviewHeight == 450
ExportWidth == 1280
ExportHeight == 720

----------------------------------------------------------------------------
(* The calls under study, before anything is asked of them *)

WrapIdle == [text |-> <<>>, font |-> LoadDefault, max_width |-> 0,
             done |-> FALSE, lines |-> <<>>]

PlaceIdle == [n |-> 0, font_size |-> 60, slider_value |-> 30, height |-> 720,
              done |-> FALSE, line_spacing |-> 0, ys |-> <<>>]

ThumbIdle == [title_template |-> <<>>, course_text |-> <<>>, number |-> 1,
              done |-> FALSE, title |-> <<>>, filename |-> <<>>]

NoFontCall == [done |-> FALSE, font_name |-> <<>>, size |-> 0, font |-> LoadDefault,
               hit |-> FALSE, printed |-> FALSE]

\* The widgets as create_ui sets them and the fields as __init__ sets them.
DefaultUi ==
    [title_input |-> <<"W", "e", "e", "k", " ", "#", " ",
                       "O", "v", "e", "r", "v", "i", "e", "w">>,
     course_input |-> <<"C", "O", "U", "R", "S", "E", " ", "#", "#", "#">>,
     start_number |-> 1,
     batch_count |-> 10,
     font_name |-> Aileron,
     font_size |-> 60,
     text_margins |-> 100,
     slider_value |-> 30]

\* The value of a progress dialog that was given none yet.
NoProgress == -1

\* No batch is running and none has run.
BatchIdle ==
    /\ pc = "idle"
    /\ start_num = 0
    /\ count = 0
    /\ i = 0
    /\ cancelled = FALSE
    /\ progress_value = NoProgress
    /\ item = <<>>
    /\ rendered = <<>>
    /\ written = <<>>
    /\ files = <<>>
    /\ message = <<>>

\* The state __init__ leaves on a machine where the fonts of env load: the
\* widgets at their defaults, and update_preview, its last statement, run once
\* on the empty cache.
Constructed(env) ==
    LET g == generate_thumbnail(DefaultUi, <<>>, env, DefaultUi.start_number,
                                PreviewWidth, PreviewHeight)
    IN  /\ ui = DefaultUi
        /\ loadable = env
        /\ pil_fonts = g.got.cache
        /\ stdout = (IF g.got.printed THEN 1 ELSE 0)
        /\ fontcall = [done |-> TRUE, font_name |-> DefaultUi.font_name,
                       size |-> DefaultUi.font_size, font |-> g.got.font,
                       hit |-> g.got.hit, printed |-> g.got.printed]
        /\ preview = <<Image(g, PreviewWidth, PreviewHeight)>>
        /\ events = 0
        /\ BatchIdle

AppIdle == Constructed(FontNames)

PureIdle ==
    /\ wrap = WrapIdle
    /\ place = PlaceIdle
    /\ thumb = ThumbIdle

----------------------------------------------------------------------------
(* wrap_text on every text, font size and width within the bounds *)


WrapAlphabet == {"a", "b", " ", "\t"}
\* Small sizes, so that widths within MaxWidth wrap texts within MaxTextLen.
WrapFonts == {[face |-> Arial, size |-> z] : z \in 1..2}

InitWrap ==
    /\ \E text \in TextsOver(WrapAlphabet, MaxTextLen), font \in WrapFonts,
          max_width \in 0..MaxWidth :
          wrap = [WrapIdle EXCEPT !.text = text, !.font = font, !.max_width = max_width]
    /\ place = PlaceIdle
    /\ thumb = ThumbIdle
    /\ AppIdle

WrapText ==
    /\ ~wrap.done
    /\ wrap' = [wrap EXCEPT !.done = TRUE,
                            !.lines = wrap_text(wrap.text, wrap.font, wrap.max_width)]
    /\ UNCHANGED <<place, thumb>>
    /\ UNCHANGED appVars

NextWrap == WrapText

SpecWrap == InitWrap /\ [][NextWrap]_vars

----------------------------------------------------------------------------
(* The title and file name of one item, on every template, course name and
   number within the bounds *)

MaxTemplateLen == 4
MaxCourseLen == 3

TemplateAlphabet == {"W", " ", "#"}
CourseAlphabet == {"C", " ", "\r"}
Numbers == {1, 7, 10, 42, 1099}

InitTitle ==
    /\ \E t \in TextsOver(TemplateAlphabet, MaxTemplateLen),
          c \in TextsOver(CourseAlphabet, MaxCourseLen), n \in Numbers :
          thumb = [ThumbIdle EXCEPT !.title_template = t, !.course_text = c, !.number = n]
    /\ wrap = WrapIdle
    /\ place = PlaceIdle
    /\ AppIdle

RenderTitle ==
    /\ ~thumb.done
    /\ LET title == Title(thumb.title_template, thumb.number)
       IN  thumb' = [thumb EXCEPT
               !.done = TRUE,
               !.title = title,
               !.filename = Filename(FilenameTitle(thumb.course_text, title))]
    /\ UNCHANGED <<wrap, place>>
    /\ UNCHANGED appVars

NextTitle == RenderTitle

SpecTitle == InitTitle /\ [][NextTitle]_vars

----------------------------------------------------------------------------
(* The placement of N lines, on line counts, font sizes, spacings and canvas
   heights of the sliders' ranges *)

FontSizes == {10, 50, 60, 100, 200}
SliderValues == {0, 29, 30, 58, 100}
Heights == {450, 675, 720}

InitPlace ==
    /\ \E n \in 0..MaxLines, fs \in FontSizes, v \in SliderValues, h \in Heights :
          place = [PlaceIdle EXCEPT !.n = n, !.font_size = fs, !.slider_value = v,
                                    !.height = h]
    /\ wrap = WrapIdle
    /\ thumb = ThumbIdle
    /\ AppIdle

PlaceLines ==
    /\ ~place.done
    /\ LET line_spacing == LineSpacing(place.font_size, place.slider_value)
       IN  place' = [place EXCEPT
               !.done = TRUE,
               !.line_spacing = line_spacing,
               !.ys = YPositions(place.height, place.n, place.font_size, line_spacing)]
    /\ UNCHANGED <<wrap, thumb>>
    /\ UNCHANGED appVars

NextPlace == PlaceLines

SpecPlace == InitPlace /\ [][NextPlace]_vars

----------------------------------------------------------------------------
(* get_pil_font called with any font of the combo box at sizes of the slider,
   on a machine where any of the fonts may fail to load *)

CallSizes == {10, 60}

InitFont ==
    /\ PureIdle
    /\ ui = DefaultUi
    /\ loadable \in SUBSET FontNames
    /\ pil_fonts = <<>>
    /\ stdout = 0
    /\ fontcall = NoFontCall
    /\ preview = <<>>
    /\ events = 0
    /\ BatchIdle

\* What a call of get_pil_font leaves behind.
FontCallEffect(font_name, size, got) ==
    /\ fontcall' = [done |-> TRUE, font_name |-> font_name, size |-> size,
                    font |-> got.font, hit |-> got.hit, printed |-> got.printed]
    /\ pil_fonts' = got.cache
    /\ stdout' = stdout + (IF got.printed THEN 1 ELSE 0)

GetPilFont ==
    \E font_name \in FontNames, size \in CallSizes :
        /\ FontCallEffect(font_name, size,
                          get_pil_font(pil_fonts, loadable, font_name, size))
        /\ UNCHANGED <<ui, loadable, pc, i, cancelled, progress_value, item, rendered,
                       written, files, message, preview, events, start_num, count>>
        /\ UNCHANGED pureVars

NextFont == GetPilFont

SpecFont == InitFont /\ [][NextFont]_vars

----------------------------------------------------------------------------
(* get_pil_font over time: ImageFont.truetype reads the font file at each
   load, and between two calls a file of the data directory or a system font
   may appear, disappear or be replaced by one that does not load *)

FontFilesChange ==
    /\ \E font_name \in FontNames :
          loadable' = IF font_name \in loadable
                      THEN loadable \ {font_name}
                      ELSE loadable \cup {font_name}
    /\ UNCHANGED <<ui, pil_fonts, stdout, fontcall, pc, i, cancelled, progress_value,
                   item, rendered, written, files, message, preview, events, start_num,
                   count>>
    /\ UNCHANGED pureVars

NextFontFiles ==
    \/ GetPilFont
    \/ FontFilesChange

SpecFontFiles == InitFont /\ [][NextFontFiles]_vars

----------------------------------------------------------------------------
(* The application: the widgets edited, the preview redrawn after each edit,
   and the batches of save_thumbnails, over a session of at most MaxEvents
   edits and batches *)

\* The values the widgets are given in the sessions explored, next to their
\* defaults.
TitleInputs == {DefaultUi.title_input, <<"W", " ", "#">>, <<"W", "W", " ", "W", "W">>}
CourseInputs == {DefaultUi.course_input, <<" ">>, <<"C">>}
StartNumbers == {DefaultUi.start_number, 9}
BatchCounts == (1..MaxBatch) \cup {DefaultUi.batch_count}
FontSizeValues == {DefaultUi.font_size, 200}
MarginValues == {DefaultUi.text_margins, 200}
LineSpacingValues == {DefaultUi.slider_value, 58}

\* The machines explored: every font loads; the system font is missing; the
\* font selected at start does not load. The file of Missing never loads.
Machines == {{Arial, Aileron}, {Aileron}, {Arial}}

\* __init__ has returned and the window is shown.
Init ==
    /\ PureIdle
    /\ \E env \in Machines : Constructed(env)

\* No batch is running: the event loop delivers the signals of the widgets.
\* While a batch runs its progress dialog is modal to the window.
Quiet == pc \in {"idle", "done", "failed"}

\* update_preview with the widgets at u:
\* generate_thumbnail(self.start_number.value(), 800, 450), then setPixmap.
\* Its except branch needs generate_thumbnail to raise, which it does on no
\* value of the widgets above.
Refresh(u) ==
    LET g == generate_thumbnail(u, pil_fonts, loadable, u.start_number,
                                PreviewWidth, PreviewHeight)
    IN  /\ FontCallEffect(u.font_name, u.font_size, g.got)
        /\ preview' = <<Image(g, PreviewWidth, PreviewHeight)>>

\* A widget whose signal is connected to update_preview changes its value:
\* the widgets are at u, and the preview is redrawn.
EditAndRefresh(u) ==
    /\ Quiet
    /\ events < MaxEvents
    /\ u # ui
    /\ ui' = u
    /\ events' = events + 1
    /\ Refresh(u)
    /\ UNCHANGED <<loadable, pc, i, cancelled, progress_value, item, rendered, written,
                   files, message, start_num, count>>
    /\ UNCHANGED pureVars

\* update_preview called with the widgets as they are: by choose_text_color,
\* choose_bg_color, choose_bg_image, clear_background_image, update_overlay
\* and update_pattern_opacity, whose own state the model leaves out.
UpdatePreview ==
    /\ Quiet
    /\ Refresh(ui)
    /\ UNCHANGED <<ui, loadable, pc, i, cancelled, progress_value, item, rendered,
                   written, files, message, events, start_num, count>>
    /\ UNCHANGED pureVars

\* self.title_input.textChanged.connect(self.update_preview)
TitleInputChanged ==
    \E t \in TitleInputs : EditAndRefresh([ui EXCEPT !.title_input = t])

\* self.course_input.textChanged.connect(self.update_preview)
CourseInputChanged ==
    \E c \in CourseInputs : EditAndRefresh([ui EXCEPT !.course_input = c])

\* self.start_number.valueChanged.connect(self.update_preview)
StartNumberChanged ==
    \E s \in StartNumbers : EditAndRefresh([ui EXCEPT !.start_number = s])

\* self.font_combo.currentTextChanged.connect(self.update_preview)
FontComboChanged ==
    \E f \in FontNames : EditAndRefresh([ui EXCEPT !.font_name = f])

\* self.font_size_slider.valueChanged.connect(self.update_preview)
FontSizeChanged ==
    \E z \in FontSizeValues : EditAndRefresh([ui EXCEPT !.font_size = z])

\* self.text_margins = value; self.update_preview()
update_text_margins ==
    \E value \in MarginValues : EditAndRefresh([ui EXCEPT !.text_margins = value])

\* self.line_spacing_factor = value / 100.0; self.update_preview()
update_line_spacing ==
    \E value \in LineSpacingValues : EditAndRefresh([ui EXCEPT !.slider_value = value])

\* The spin box of the batch count has no slot connected: its value changes
\* and nothing else does.
BatchCountChanged ==
    /\ Quiet
    /\ events < MaxEvents
    /\ \E n \in BatchCounts :
          /\ n # ui.batch_count
          /\ ui' = [ui EXCEPT !.batch_count = n]
    /\ events' = events + 1
    /\ UNCHANGED <<loadable, pil_fonts, stdout, fontcall, pc, i, cancelled,
                   progress_value, item, rendered, written, files, message, preview,
                   start_num, count>>
    /\ UNCHANGED pureVars

\* save_thumbnails, no directory chosen: if not save_dir: return
SaveNoDirectory ==
    /\ Quiet
    /\ UNCHANGED vars

\* save_thumbnails up to the loop: a progress dialog is created and shown.
\* rendered, written and message tell of the batch that starts; the files of
\* the batches before it stay in the directory.
SaveStart ==
    /\ Quiet
    /\ events < MaxEvents
    /\ events' = events + 1
    /\ start_num' = ui.start_number
    /\ count' = ui.batch_count
    /\ pc' = "check"
    /\ i' = 0
    /\ cancelled' = FALSE
    /\ progress_value' = NoProgress
    /\ item' = <<>>
    /\ rendered' = <<>>
    /\ written' = <<>>
    /\ message' = <<>>
    /\ UNCHANGED <<ui, loadable, pil_fonts, stdout, fontcall, files, preview>>
    /\ UNCHANGED pureVars

\* The user's click on Cancel reaches the progress dialog. The loop hands
\* control to Qt only inside progress.setValue(i), between the check and the
\* render; a click made at any other moment of the loop waits until then.
UserCancel ==
    /\ pc = "render"
    /\ ~cancelled
    /\ cancelled' = TRUE
    /\ UNCHANGED <<ui, loadable, pil_fonts, stdout, fontcall, pc, i, progress_value,
                   item, rendered, written, files, message, preview, events, start_num,
                   count>>
    /\ UNCHANGED pureVars

wasCanceledNever == FALSE

\* progress.wasCanceled()
wasCanceled == cancelled

\* if progress.wasCanceled(): break
LoopCheckCancelled ==
    /\ pc = "check"
    /\ wasCanceled
    /\ pc' = "finish"
    /\ UNCHANGED <<ui, loadable, pil_fonts, stdout, fontcall, i, cancelled,
                   progress_value, item, rendered, written, files, message, preview,
                   events, start_num, count>>
    /\ UNCHANGED pureVars

\* The check passes: current_num = start_num + i; progress.setValue(i)
LoopCheckPass ==
    /\ pc = "check"
    /\ ~wasCanceled
    /\ progress_value' = i
    /\ pc' = "render"
    /\ UNCHANGED <<ui, loadable, pil_fonts, stdout, fontcall, i, cancelled, item,
                   rendered, written, files, message, preview, events, start_num,
                   count>>
    /\ UNCHANGED pureVars

\* img, title = self.generate_thumbnail(current_num, 1280, 720) and the file name
Render ==
    /\ pc = "render"
    /\ LET current_num == start_num + i
           g == generate_thumbnail(ui, pil_fonts, loadable, current_num,
                                   ExportWidth, ExportHeight)
       IN  /\ FontCallEffect(ui.font_name, ui.font_size, g.got)
           /\ item' = <<[number |-> current_num,
                         filename |-> Filename(g.filename_title),
                         img |-> Image(g, ExportWidth, ExportHeight)]>>
           /\ rendered' = Append(rendered, current_num)
    /\ pc' = "write"
    /\ UNCHANGED <<ui, loadable, i, cancelled, progress_value, written, files, message,
                   preview, events, start_num, count>>
    /\ UNCHANGED pureVars

\* img.save(file_path) succeeds; the loop goes on to the next index or ends
WriteOk ==
    /\ pc = "write"
    /\ files' = Put(files, item[1].filename, item[1].img)
    /\ written' = Append(written, item[1])
    /\ item' = <<>>
    /\ i' = i + 1
    /\ pc' = IF i + 1 < count THEN "check" ELSE "finish"
    /\ UNCHANGED <<ui, loadable, pil_fonts, stdout, fontcall, cancelled, progress_value,
                   rendered, message, preview, events, start_num, count>>
    /\ UNCHANGED pureVars

\* What a file holds that img.save opened for writing and did not complete:
\* no image.
PartialFile == [corrupt |-> TRUE]

\* What a failing img.save(file_path) can leave of the directory. The file
\* was not opened (permission denied), or Pillow removed the file it had
\* created: the directory is as it was. The file was opened "w+b" and the
\* write failed (disk full): a file of that name that existed is truncated
\* and stays, and a new one stays with Pillow versions that do not remove it.
FailedSaveLeaves(dir, filename) == {dir, Put(dir, filename, PartialFile)}

\* img.save(file_path) raises (disk full, permission denied): the except branch
\* shows "Failed to save thumbnails: {e}"
WriteFail ==
    /\ pc = "write"
    /\ pc' = "failed"
    /\ files' \in FailedSaveLeaves(files, item[1].filename)
    /\ message' = <<[kind |-> "critical", title |-> "Save Error", numbers |-> <<>>]>>
    /\ UNCHANGED <<ui, loadable, pil_fonts, stdout, fontcall, i, cancelled,
                   progress_value, item, rendered, written, preview, events,
                   start_num, count>>
    /\ UNCHANGED pureVars

\* After the loop: progress.setValue(count), inside which a click on Cancel
\* may still reach the dialog, and "{count} thumbnails saved successfully!"
Finish ==
    /\ pc = "finish"
    /\ progress_value' = count
    /\ \E click \in BOOLEAN : cancelled' = (cancelled \/ click)
    /\ message' = <<[kind |-> "information", title |-> "Success",
                     numbers |-> <<count>>]>>
    /\ pc' = "done"
    /\ UNCHANGED <<ui, loadable, pil_fonts, stdout, fontcall, i, item, rendered,
                   written, files, preview, events, start_num, count>>
    /\ UNCHANGED pureVars

Next ==
    \/ UpdatePreview
    \/ TitleInputChanged
    \/ CourseInputChanged
    \/ StartNumberChanged
    \/ BatchCountChanged
    \/ FontComboChanged
    \/ FontSizeChanged
    \/ update_text_margins
    \/ update_line_spacing
    \/ SaveNoDirectory
    \/ SaveStart
    \/ UserCancel
    \/ LoopCheckCancelled
    \/ LoopCheckPass
    \/ Render
    \/ WriteOk
    \/ WriteFail
    \/ Finish

Spec == Init /\ [][Next]_vars

----------------------------------------------------------------------------
(* Helpers of the properties *)

RECURSIVE SplitSpaceFrom(_, _, _)
SplitSpaceFrom(s, cur, acc) ==
    IF s = <<>> THEN Append(acc, cur)
    ELSE IF Head(s) = " " THEN SplitSpaceFrom(Tail(s), <<>>, Append(acc, cur))
    ELSE SplitSpaceFrom(Tail(s), Append(cur, Head(s)), acc)

\* line.split(' '): the pieces between single spaces, empty pieces kept
SplitSpace(s) == SplitSpaceFrom(s, <<>>, <<>>)

RECURSIVE Flatten(_)
Flatten(ss) == IF ss = <<>> THEN <<>> ELSE Head(ss) \o Flatten(Tail(ss))

RECURSIVE Filter(_, _)
\* the characters of s that are in set, in order
Filter(s, set) ==
    IF s = <<>> THEN <<>>
    ELSE (IF Head(s) \in set THEN <<Head(s)>> ELSE <<>>) \o Filter(Tail(s), set)

RECURSIVE Repeat(_, _)
Repeat(s, k) == IF k = 0 THEN <<>> ELSE s \o Repeat(s, k - 1)

DigitSet == Range(Digits)

DigitValue(ch) == CHOOSE d \in 0..9 : Digits[d + 1] = ch

RECURSIVE DecimalValue(_)
DecimalValue(ds) ==
    IF ds = <<>> THEN 0
    ELSE 10 * DecimalValue(SubSeq(ds, 1, Len(ds) - 1)) + DigitValue(ds[Len(ds)])

\* t is s without its leading and trailing whitespace
IsTrimOf(t, s) ==
    /\ \E a \in 0..Len(s) : \E b \in a..Len(s) :
          /\ t = SubSeq(s, a + 1, b)
          /\ \A k \in (1..a) \cup ((b + 1)..Len(s)) : s[k] \in Whitespace
    /\ t # <<>> => t[1] \notin Whitespace /\ t[Len(t)] \notin Whitespace

----------------------------------------------------------------------------
(* C1: wrap_text returns no line wider than max_width, except a line of one
   word that alone is wider; and it wraps only when it must: a line that
   measures exactly max_width is accepted (no break is made where the line
   with the next word joined still measures at most max_width), while one
   pixel more forces the wrap. *)
C1_WrapWithinWidth ==
    wrap.done =>
        /\ \A k \in 1..Len(wrap.lines) :
              \/ TextWidth(wrap.font, wrap.lines[k]) <= wrap.max_width
              \/ /\ Len(SplitSpace(wrap.lines[k])) = 1
                 /\ wrap.lines[k] \in Range(Split(wrap.text))
        /\ \A k \in 1..(Len(wrap.lines) - 1) :
              TextWidth(wrap.font,
                        wrap.lines[k] \o <<" ">> \o Head(SplitSpace(wrap.lines[k + 1])))
                  >= wrap.max_width + 1

\* A wrapped text with a line of several words that measures exactly max_width,
\* and a line of one word wider than max_width.
C1_Witness ==
    /\ wrap.done
    /\ Len(wrap.lines) >= 2
    /\ \E k \in 1..Len(wrap.lines) :
          /\ Len(SplitSpace(wrap.lines[k])) >= 2
          /\ TextWidth(wrap.font, wrap.lines[k]) = wrap.max_width
    /\ \E k \in 1..Len(wrap.lines) :
          TextWidth(wrap.font, wrap.lines[k]) > wrap.max_width

(* C2: the lines of wrap_text, split on spaces and concatenated in order, are
   exactly the whitespace-separated words of the text; no line is empty; an
   empty or whitespace-only text gives no line. *)
C2_WrapKeepsWords ==
    wrap.done =>
        /\ Flatten([k \in 1..Len(wrap.lines) |-> SplitSpace(wrap.lines[k])])
              = Split(wrap.text)
        /\ \A k \in 1..Len(wrap.lines) : wrap.lines[k] # <<>>
        /\ Range(wrap.text) \subseteq Whitespace => wrap.lines = <<>>

\* A text with a tab and doubled whitespace, wrapped into two lines or more, one
\* of them of two words.
C2_Witness ==
    /\ wrap.done
    /\ "\t" \in Range(wrap.text)
    /\ Len(wrap.text) > Len(Join(Split(wrap.text)))
    /\ Len(wrap.lines) >= 2
    /\ \E k \in 1..Len(wrap.lines) : Len(SplitSpace(wrap.lines[k])) = 2

(* C3: every '#' of the title template is replaced by the decimal sequence
   number: the title holds no '#', its other characters are those of the
   template in order, and its digits are the number's decimal digits once per
   '#'; a template without '#' gives the same title for every number. *)
C3_PlaceholderReplaced ==
    thumb.done =>
        LET hashes == Len(Filter(thumb.title_template, {"#"}))
            digits == Filter(thumb.title, DigitSet)
        IN  /\ "#" \notin Range(thumb.title)
            /\ Filter(thumb.title, TemplateAlphabet \ {"#"})
                  = Filter(thumb.title_template, TemplateAlphabet \ {"#"})
            /\ Len(digits) = hashes * Len(Str(thumb.number))
            /\ \A j \in 1..hashes :
                  LET d == SubSeq(digits, (j - 1) * Len(Str(thumb.number)) + 1,
                                  j * Len(Str(thumb.number)))
                  IN  DecimalValue(d) = thumb.number /\ d[1] # "0"
            /\ hashes = 0 =>
                  \A n \in Numbers : Title(thumb.title_template, n) = thumb.title

\* A template with two placeholders rendered for a number of several digits.
C3_Witness ==
    /\ thumb.done
    /\ Len(Filter(thumb.title_template, {"#"})) >= 2
    /\ thumb.number >= 10
    /\ "W" \in Range(thumb.title_template)

(* C4 as stated: the file name is "{course_name} - {title}_Thumbnail.png" when
   the course name entered is not empty, and "{title}_Thumbnail.png" when it
   is empty. *)
C4_FilenameOfEnteredCourse ==
    thumb.done =>
        thumb.filename =
            IF thumb.course_text # <<>>
            THEN thumb.course_text \o <<" ", "-", " ">> \o thumb.title \o ThumbnailSuffix
            ELSE thumb.title \o ThumbnailSuffix

(* C4 as amended: with course_name the course name entered without its leading
   and trailing whitespace, the file name is
   "{course_name} - {title}_Thumbnail.png" when course_name is not empty and
   "{title}_Thumbnail.png" when it is empty (nothing or only whitespace was
   entered); title is the substituted title of the item. *)
C4_FilenameOfTrimmedCourse ==
    thumb.done =>
        /\ "#" \notin Range(thumb.title)
        /\ \E course_name \in TextsOver(CourseAlphabet, MaxCourseLen) :
              /\ IsTrimOf(course_name, thumb.course_text)
              /\ thumb.filename =
                    IF course_name # <<>>
                    THEN course_name \o <<" ", "-", " ">> \o thumb.title
                             \o ThumbnailSuffix
                    ELSE thumb.title \o ThumbnailSuffix

\* A course name entered with whitespace around it, and a title with a number.
C4_Witness ==
    /\ thumb.done
    /\ Strip(thumb.course_text) # <<>>
    /\ Strip(thumb.course_text) # thumb.course_text
    /\ "#" \in Range(thumb.title_template)

(* C10: for N >= 1 lines of height font_size, with the spacing only between
   the lines (block height N * (font_size + spacing) - spacing), the distance
   from the canvas top to the first line's top and the distance from the last
   line's bottom to the canvas bottom differ by at most one pixel. *)
C10_VerticallyCentered ==
    (place.done /\ place.n >= 1) =>
        LET top == place.ys[1]
            last_bottom == place.ys[place.n] + place.font_size
            below == place.height - last_bottom
        IN  /\ Len(place.ys) = place.n
            /\ last_bottom - top
                  = place.n * (place.font_size + place.line_spacing) - place.line_spacing
            /\ top - below \in {-1, 0, 1}

\* Several lines with a spacing between them, and an odd remainder to halve.
C10_Witness ==
    /\ place.done
    /\ place.n >= 3
    /\ place.line_spacing > 0
    /\ (place.height - (place.ys[place.n] + place.font_size)) - place.ys[1] = 1

\* The sequence numbers start, start + 1, ..., n of them
NumbersFrom(start, n) == [k \in 1..n |-> start + k - 1]

C5_Order ==
    /\ Len(written) <= count
    /\ [k \in 1..Len(written) |-> written[k].number]
          = NumbersFrom(start_num, Len(written))
    /\ rendered = NumbersFrom(start_num, Len(rendered))
    /\ IF pc \in {"write", "failed"}
       THEN Len(rendered) = Len(written) + 1
       ELSE Len(rendered) = Len(written)

C5_CheckOnlyAtTop ==
    \* the check reports cancellation: the loop ends, nothing more is
    \* rendered or written, the files stay as they are
    /\ (pc = "check" /\ cancelled /\ pc' # "check") =>
          pc' = "finish" /\ rendered' = rendered /\ written' = written /\ files' = files
    /\ pc = "finish" =>
          /\ pc' \in {"finish", "done"}
          /\ rendered' = rendered /\ written' = written /\ files' = files
    \* the run has ended: nothing is rendered or written until another starts
    /\ pc = "done" =>
          /\ files' = files
          /\ pc' = "done" => rendered' = rendered /\ written' = written
    \* the check is passed only when no cancellation is reported
    /\ (pc = "check" /\ pc' = "render") => ~cancelled
    \* past the check the item is rendered, cancelled or not
    /\ (pc = "render" /\ pc' # "render") =>
          pc' = "write" /\ rendered' = Append(rendered, start_num + i)

\* The step that leaves the write writes the item of this iteration.
C5_ItemWritten ==
    /\ Len(written') = Len(written) + 1
    /\ written'[Len(written')].number = start_num + i
    /\ written'[Len(written')].filename \in DOMAIN files'
    /\ files'[written'[Len(written')].filename] = written'[Len(written')].img

(* C5 as stated: a run of save_thumbnails generates and writes the items of
   start_number, start_number + 1, ... in increasing order, at most batch_count
   of them, each written before the next is generated; the cancellation check
   is consulted before each iteration and only there, so an iteration past the
   check always renders and writes its item, and once the check reports
   cancellation nothing more is rendered or written and the files written stay
   as they are, until another run is started. *)
C5_AlwaysWritten ==
    /\ []C5_Order
    /\ [][/\ C5_CheckOnlyAtTop
          /\ (pc = "write" /\ pc' # "write") => C5_ItemWritten]_vars

(* C5 as amended: the same, except that an iteration past the check always
   renders its item and hands it to the writer, whether or not Cancel was
   pressed meanwhile, and the item is written unless the write itself raises,
   which ends the run with nothing more rendered or written; of the files,
   the failed write can touch only the one of the item's own name. *)
C5_CancellableLoop ==
    /\ []C5_Order
    /\ [][/\ C5_CheckOnlyAtTop
          /\ (pc = "write" /\ pc' # "write") =>
                \/ C5_ItemWritten
                \/ /\ pc' = "failed"
                   /\ rendered' = rendered /\ written' = written
                   /\ DOMAIN files' \subseteq DOMAIN files \cup {item[1].filename}
                   /\ \A f \in DOMAIN files \ {item[1].filename} :
                         f \in DOMAIN files' /\ files'[f] = files[f]
          /\ pc = "failed" =>
                /\ files' = files
                /\ pc' = "failed" => rendered' = rendered /\ written' = written]_vars

\* A batch of three items or more, cancelled: the check that followed the second
\* write ended the loop, with two items written and no third one rendered.
C5_Witness ==
    /\ pc = "finish"
    /\ cancelled
    /\ Len(written) = 2
    /\ Len(rendered) = 2
    /\ count > 2

(* C6: when a run of save_thumbnails ends without an exception, by finishing
   all iterations or by cancellation, the count it reports as saved is the
   number of items it wrote. *)
C6_ReportedCountIsWritten ==
    pc = "done" => message[1].numbers = <<Len(written)>>

(* C7: when the write of item k fails, no item after k is rendered or written
   and the report gives the count written and the count requested. *)
C7_WriteErrorReportsCounts ==
    pc = "failed" =>
        /\ Len(rendered) = Len(written) + 1
        /\ Len(message) = 1
        /\ {Len(written), count} \subseteq Range(message[1].numbers)

(* C8: after the i-th item has been written and before the next cancellation
   check, the next render or the end of the run, the progress value reported
   is i; and the value reported never exceeds the number of items written. *)
C8_ProgressAfterEachItem ==
    /\ (pc \in {"check", "finish"} /\ Len(written) >= 1) =>
          progress_value = Len(written)
    /\ progress_value <= Len(written)

\* The font handles a font that loads can give at the sizes called with.
LoadedHandles == {TrueType(n, z) : n \in loadable, z \in CallSizes}

(* C9: get_pil_font raises nothing and returns a font handle for every font
   name and size, the built-in default font when the font does not load; and
   the caller can tell that the default was substituted: the call reports it,
   or returns a handle that no font that loads returns. *)
C9_FallbackDetectable ==
    fontcall.done =>
        /\ fontcall.font \in LoadedHandles \cup {LoadDefault}
        /\ fontcall.font_name \notin loadable => fontcall.font = LoadDefault
        /\ fontcall.font_name \notin loadable =>
              fontcall.printed \/ fontcall.font \notin LoadedHandles

(* C11: the preview is a faithful scaled proxy of the export: for the same
   configuration and sequence number, the preview render (update_preview,
   800x450) and the export render (save_thumbnails, 1280x720) break the title
   into the same lines at the same wrap points. While a batch runs no widget
   can be edited, so the preview shown is the one of the configuration and
   start number the batch renders its first item with. *)
C11_PreviewSameLines ==
    (pc \in {"check", "render", "write", "finish"} /\ Len(written) >= 1) =>
        /\ preview[1].number = written[1].number
        /\ preview[1].font = written[1].img.font
        /\ preview[1].lines = written[1].img.lines

\* Font names and sizes whose keys a careless concatenation would confuse.
C12_Names == FontNames \cup {<<"F">>, <<"F", "_", "1", "1">>, <<"F", "_">>}
C12_Sizes == CallSizes \cup {1, 11, 110}

C12_KeysApart ==
    \A n1 \in C12_Names, n2 \in C12_Names, z1 \in C12_Sizes, z2 \in C12_Sizes :
        Key(n1, z1) = Key(n2, z2) => n1 = n2 /\ z1 = z2

C12_Cache ==
    /\ C12_KeysApart
    \* an entry belongs to one (font name, size) pair, and holds what that
    \* pair resolved to
    /\ \A k \in DOMAIN pil_fonts :
          /\ Cardinality({p \in FontNames \X CallSizes : Key(p[1], p[2]) = k}) = 1
          /\ \E n \in FontNames, z \in CallSizes :
                k = Key(n, z) /\ pil_fonts[k] \in {TrueType(n, z), LoadDefault}
    \* the handle of the last call is the entry of its key
    /\ fontcall.done =>
          /\ InCache(pil_fonts, Key(fontcall.font_name, fontcall.size))
          /\ pil_fonts[Key(fontcall.font_name, fontcall.size)] = fontcall.font

C12_CacheStep ==
    \* no entry is removed or replaced
    /\ \A k \in DOMAIN pil_fonts : InCache(pil_fonts', k) /\ pil_fonts'[k] = pil_fonts[k]
    \* a call: on a key resolved before it returns the entry, loading and
    \* printing nothing; on a new key it adds that entry and no other
    /\ fontcall' # fontcall =>
          LET k == Key(fontcall'.font_name, fontcall'.size)
          IN  IF InCache(pil_fonts, k)
              THEN /\ fontcall'.hit /\ ~fontcall'.printed
                   /\ fontcall'.font = pil_fonts[k]
                   /\ pil_fonts' = pil_fonts /\ stdout' = stdout
              ELSE /\ ~fontcall'.hit
                   /\ DOMAIN pil_fonts' = DOMAIN pil_fonts \cup {k}

(* C12: across any sequence of get_pil_font calls the cache is append-only
   and keyed by the (font name, size) pair: a call on a key resolved before
   returns the same handle without loading again, also when that handle is
   the fallback; no entry is ever removed or replaced; two distinct pairs never
   share an entry. *)
C12_CacheAppendOnly == []C12_Cache /\ [][C12_CacheStep]_vars

\* A font that did not load at size 10 and loads now: the call at size 10 was
\* answered from the cache with the fallback, while size 60, resolved later,
\* holds the font itself.
C12_Witness ==
    /\ fontcall.done
    /\ fontcall.font_name = Arial /\ fontcall.size = 10
    /\ fontcall.hit
    /\ fontcall.font = LoadDefault
    /\ Arial \in loadable
    /\ InCache(pil_fonts, Key(Arial, 60))
    /\ pil_fonts[Key(Arial, 60)] = TrueType(Arial, 60)

====
